---- MODULE Spec2Model ----
(***************************************************************************)
(* DynEL: exception routing (handle_exception), in-place wrapping          *)
(* (module_exception_handler) and the rule store they consult.             *)
(*                                                                         *)
(* Python values: a dict is a function (a record), None is the empty       *)
(* tuple and a value that may be None is a tuple of length at most one.    *)
(* The loguru logger is the collaborator: a set of attached handlers and,  *)
(* for every destination, the sequence of records it received.             *)
(***************************************************************************)
EXTENDS Integers, Sequences, FiniteSets, TLC

VARIABLES
    EXCEPTION_CONFIG,      \* config.EXCEPTION_CONFIG: function name -> rule entry
    PANIC_MODE,            \* config.PANIC_MODE
    CUSTOM_CONTEXT_LEVEL,  \* config.CUSTOM_CONTEXT_LEVEL
    handlers,              \* handlers attached to the loguru logger
    next_handler_id,       \* id the next logger.add returns
    sinks,                 \* destination -> records received since the calls in progress began
    wrapped,               \* module members replaced by module_exception_handler
    pc,                    \* thread -> position in handle_exception / the wrapper
    frame,                 \* thread -> local variables of the running handle_exception
    wcall,                 \* thread -> the wrapper call in progress or last completed
    exit_status,           \* None, or Some(code) once sys.exit(code) was requested
    sysconf_names,         \* os.sysconf_names: the configuration names the platform knows
    DEBUG_MODE,            \* config.DEBUG_MODE
    LOG_FORMAT,            \* config.LOG_FORMAT
    AUX_LOG_FORMAT,        \* config.AUX_LOG_FORMAT
    files,                 \* extension -> what the file '<prefix>.<ext>' holds, if it exists
    builtins_kind,         \* what __builtins__ is in the module config.py
    load_result,           \* None, or Some(outcome of the last load_exception_config,
                           \* with the configuration as it was before the call)
    load_log,              \* the records the last load_exception_config logged
    _tracked_handler_ids   \* logging_utils._tracked_handler_ids

vars == <<EXCEPTION_CONFIG, PANIC_MODE, CUSTOM_CONTEXT_LEVEL, handlers,
          next_handler_id, sinks, wrapped, pc, frame, wcall, exit_status,
          sysconf_names, DEBUG_MODE, LOG_FORMAT, AUX_LOG_FORMAT, files,
          builtins_kind, load_result, load_log, _tracked_handler_ids>>

\* the variables of the loader and of configure_logging, and those of routing
\* and wrapping
LoaderVars == <<DEBUG_MODE, LOG_FORMAT, AUX_LOG_FORMAT, files, builtins_kind,
                load_result, load_log, _tracked_handler_ids>>
HandlingVars == <<EXCEPTION_CONFIG, PANIC_MODE, CUSTOM_CONTEXT_LEVEL, handlers,
                  next_handler_id, sinks, wrapped, pc, frame, wcall, exit_status,
                  sysconf_names>>

----------------------------------------------------------------------------
(* Bounds *)

\* logger.add is not called once this many handler ids were handed out
MaxHandlerId == 3

\* configure_logging is not called once its two handlers would get ids above this
MaxLoggingHandlerId == 7

----------------------------------------------------------------------------
(* Python values *)

None == << >>
Some(x) == <<x>>
EmptyDict == << >>

\* d.get(k, default)
DictGet(d, k, default) == IF k \in DOMAIN d THEN d[k] ELSE default

\* {**a, **b} and a |= b: keys of b win
DictMerge(a, b) ==
    [k \in (DOMAIN a) \cup (DOMAIN b) |-> IF k \in DOMAIN b THEN b[k] ELSE a[k]]

\* loguru level numbers
INFO == 20
ERROR == 40
CRITICAL == 50
DEBUG == 10

Levels == {"MINIMAL", "MEDIUM", "DETAILED"}

\* the names os.sysconf knows on Linux, and on a platform without SC_AVPHYS_PAGES
LinuxSysconfNames == {"SC_PAGE_SIZE", "SC_AVPHYS_PAGES"}
DarwinSysconfNames == {"SC_PAGE_SIZE"}
SysconfPlatforms == {LinuxSysconfNames, DarwinSysconfNames}

\* os.sysconf(name) with a name the platform does not know raises this
UnrecognizedName == "ValueError: unrecognized configuration name"

----------------------------------------------------------------------------
(* Exception classes and isinstance *)

\* ValueTypeError is a class of the program: class ValueTypeError(ValueError, TypeError)
ExceptionClasses ==
    {"ValueError", "TypeError", "KeyError", "UnicodeError", "ValueTypeError"}

\* the classes each class is a subclass of (itself included)
Mro ==
    [ValueError   |-> {"ValueError", "Exception"},
     TypeError    |-> {"TypeError", "Exception"},
     KeyError     |-> {"KeyError", "LookupError", "Exception"},
     UnicodeError |-> {"UnicodeError", "ValueError", "Exception"},
     ValueTypeError |-> {"ValueTypeError", "ValueError", "TypeError", "Exception"}]

\* isinstance(error, cls), error being an instance of class e
IsInstance(e, cls) == cls \in Mro[e]

----------------------------------------------------------------------------
(* Rule stores *)

Threads == {"main", "worker"}
MainThread == "main"

FuncNames == {"F", "G"}
OnErrorName == "_onerror_handler"

\* members of the module handed to module_exception_handler: its functions,
\* and the methods of its class
ModuleFunctions == {"F", "G"}
Methods == {"inst", "stat", "clsm"}
Members == ModuleFunctions \cup Methods

\* how each member was defined
MemberKind ==
    [F |-> "function", G |-> "function",
     inst |-> "instance", stat |-> "static", clsm |-> "class"]

\* what the owner's namespace holds for a member as defined
OriginalDescriptor(kind) ==
    CASE kind = "static" -> "staticmethod"
      [] kind = "class" -> "classmethod"
      [] OTHER -> "function"

\* what inspect.getmembers(owner) yields for it, i.e. getattr(owner, name):
\* a staticmethod comes back as its function, a classmethod as a bound method
GetMembersValue(kind) ==
    CASE kind = "class" -> "method"
      [] OTHER -> "function"

\* the branch module_exception_handler takes for a callable value: whether it
\* wraps it, and what setattr then attaches
WrapBranch(value) ==
    CASE value \in {"staticmethod", "classmethod"} -> [wraps |-> TRUE, descriptor |-> value]
      [] value = "function" -> [wraps |-> TRUE, descriptor |-> "function"]
      [] OTHER -> [wraps |-> FALSE, descriptor |-> value]

\* what a member is called on
ReceiversOf(kind) ==
    CASE kind = "function" -> {"module"}
      [] kind = "instance" -> {"instance"}
      [] OTHER -> {"class", "instance"}

\* the implicit first argument the attribute lookup binds
ImplicitArg(descriptor, receiver) ==
    CASE descriptor = "classmethod" -> "class"
      [] descriptor = "function" /\ receiver = "instance" -> "instance"
      [] OTHER -> "none"

\* the implicit first argument the body of a member takes
ExpectedArg(kind) ==
    CASE kind = "instance" -> "instance"
      [] kind = "class" -> "class"
      [] OTHER -> "none"

PrimarySink == "stderr"
AuxSinks == {"value.log", "default.log"}
Sinks == {PrimarySink} \cup AuxSinks

BehaviorsFull ==
    [default    |-> [add_metadata |-> [severity |-> "Low", error_code |-> "D000"],
                     log_to_specific_file |-> "default.log"],
     ValueError |-> [add_metadata |-> [error_code |-> "VE001"],
                     log_to_specific_file |-> "value.log"],
     TypeError  |-> [add_metadata |-> [error_code |-> "TE001"]]]

BehaviorsDefaultOnly ==
    [default |-> [add_metadata |-> [severity |-> "Low"],
                  log_to_specific_file |-> "default.log"]]

EntryFull ==
    [exceptions |-> <<"ValueError", "TypeError", "KeyError">>,
     custom_message |-> "bad input",
     tags |-> <<"x">>,
     behaviors |-> BehaviorsFull]

EntryKeyOnly ==
    [exceptions |-> <<"KeyError">>,
     custom_message |-> "",
     tags |-> << >>,
     behaviors |-> BehaviorsDefaultOnly]

\* an entry as the tests assign it: no 'behaviors' key
EntryPlain ==
    [exceptions |-> <<"TypeError">>,
     custom_message |-> "types",
     tags |-> <<"database">>]

\* add_metadata naming keys the context already holds
BehaviorsOverride ==
    [default |-> [add_metadata |-> [timestamp |-> "2020-01-01T00:00:00",
                                    tags |-> <<"meta">>]]]

EntryOverride ==
    [exceptions |-> <<"ValueError">>,
     custom_message |-> "",
     tags |-> <<"x">>,
     behaviors |-> BehaviorsOverride]

\* two listed types with a common subclass, a behavior for a listed type and
\* one for a subclass of it
BehaviorsOrdered ==
    [ValueError   |-> [add_metadata |-> [error_code |-> "VE001"]],
     UnicodeError |-> [add_metadata |-> [error_code |-> "UE001"]]]

EntryOrdered ==
    [exceptions |-> <<"ValueError", "TypeError">>,
     custom_message |-> "ordered",
     tags |-> <<"t">>,
     behaviors |-> BehaviorsOrdered]

RuleStores ==
    { EmptyDict,
      [F |-> EntryOrdered],
      [F |-> EntryFull],
      [F |-> EntryOverride],
      [F |-> EntryKeyOnly, G |-> EntryPlain],
      [F |-> EntryFull, _onerror_handler |-> EntryKeyOnly] }

----------------------------------------------------------------------------
(* The logger *)

DefaultHandlers == {[id |-> 0, sink |-> PrimarySink, level |-> DEBUG]}

Record(level, message, extra, exception, origin, t) ==
    [level |-> level, message |-> message, extra |-> extra,
     exception |-> exception, origin |-> origin, thread |-> t]

\* a logging call: every attached handler whose level admits the record writes it
Deliver(snk, hs, rec) ==
    [d \in Sinks |->
        LET n == Cardinality({h \in hs : h.sink = d /\ rec.level >= h.level})
        IN snk[d] \o [i \in 1..n |-> rec]]

EmptySinks == [d \in Sinks |-> << >>]

----------------------------------------------------------------------------
(* handle_exception: the pure parts *)

\* what the caller's frame offers: non-empty locals that render, no locals,
\* or locals whose str() raises
LocalsStates == {"bound", "empty", "unprintable"}

LocalVarsString(locals_state) ==
    CASE locals_state = "bound" -> "str(f_locals)"
      [] locals_state = "unprintable" -> "Error converting local_vars to string"
      [] OTHER -> "Local variables information unavailable"

DetailedContext(sysconf_ok, environ_ok) ==
    DictMerge(
        IF sysconf_ok
        THEN [free_memory |-> "SC_PAGE_SIZE*SC_AVPHYS_PAGES", cpu_count |-> "cpu_count()"]
        ELSE [system_info_error |-> "Could not retrieve some system info (memory/CPU)"],
        IF environ_ok
        THEN [env_details |-> "dict(os.environ)"]
        ELSE [env_details_error |-> "Could not retrieve environment variables"])

\* a context that renders the locals at every level
GatherContextAlwaysLocals(level, locals_state, sysconf_ok, environ_ok) ==
    LET medium == [timestamp |-> "now(utc).isoformat()",
                   local_vars |-> LocalVarsString(locals_state)]
    IN IF level = "DETAILED"
       THEN DictMerge(medium, DetailedContext(sysconf_ok, environ_ok))
       ELSE medium

\* custom_context_dict as built before the rule is consulted
GatherContext(level, locals_state, sysconf_ok, environ_ok) ==
    LET base == [timestamp |-> "now(utc).isoformat()"]
        medium == IF level \in {"MEDIUM", "DETAILED"}
                  THEN DictMerge(base, [local_vars |-> LocalVarsString(locals_state)])
                  ELSE base
    IN IF level = "DETAILED"
       THEN DictMerge(medium, DetailedContext(sysconf_ok, environ_ok))
       ELSE medium

RECURSIVE FirstMatch(_, _, _)

\* index of the last configured type the error is an instance of; 0 if none
LastMatch(exceptions, e, i) ==
    IF \E j \in i..Len(exceptions) : IsInstance(e, exceptions[j])
    THEN CHOOSE j \in i..Len(exceptions) :
             /\ IsInstance(e, exceptions[j])
             /\ \A k \in (j + 1)..Len(exceptions) : ~IsInstance(e, exceptions[k])
    ELSE 0

\* index of the first configured type the error is an instance of, from i on; 0 if none
FirstMatch(exceptions, e, i) ==
    IF i > Len(exceptions) THEN 0
    ELSE IF IsInstance(e, exceptions[i]) THEN i
    ELSE FirstMatch(exceptions, e, i + 1)

\* 'if function_config:' : the entry exists and is a non-empty dict
ConfigTruthy(function_config) ==
    function_config # None /\ DOMAIN function_config[1] # {}

\* the behaviors the function's entry applies by default
DefaultBehaviors(function_config) ==
    IF ConfigTruthy(function_config)
    THEN DictGet(DictGet(function_config[1], "behaviors", EmptyDict), "default", EmptyDict)
    ELSE EmptyDict

Matched(function_config, e) ==
    /\ ConfigTruthy(function_config)
    /\ FirstMatch(DictGet(function_config[1], "exceptions", << >>), e, 1) > 0

\* a key that is the name of the listed type the instance matched
ListedTypeName(e, configured_exc_type) == configured_exc_type

\* exception_type_name = type(error).__name__: the key the type-specific
\* behavior is looked up under, e being the class of the instance
ExceptionTypeName(e, configured_exc_type) == e

\* the loop over the configured types, up to its break
Resolve(function_config, e) ==
    IF Matched(function_config, e)
    THEN LET entry == function_config[1]
         IN [configured_exc_type |->
                 Some(entry.exceptions[FirstMatch(entry.exceptions, e, 1)]),
             final_custom_message |->
                 IF "custom_message" \in DOMAIN entry THEN Some(entry.custom_message) ELSE None,
             final_tags |->
                 IF "tags" \in DOMAIN entry THEN Some(entry.tags) ELSE None,
             specific_behaviors |->
                 Some(DictGet(DictGet(entry, "behaviors", EmptyDict),
                              ExceptionTypeName(e,
                                  entry.exceptions[FirstMatch(entry.exceptions, e, 1)]),
                              EmptyDict))]
    ELSE [configured_exc_type |-> None, final_custom_message |-> None,
          final_tags |-> None, specific_behaviors |-> None]

\* the merge the other way round: the default wins over the type's behavior
AppliedBehaviorsDefaultWins(default_behaviors, specific_behaviors) ==
    DictMerge(IF specific_behaviors # None THEN specific_behaviors[1] ELSE EmptyDict,
              default_behaviors)

\* applied_behaviors = {**default_behaviors, **(specific_behaviors or {})}
AppliedBehaviors(default_behaviors, specific_behaviors) ==
    DictMerge(default_behaviors,
              IF specific_behaviors # None THEN specific_behaviors[1] ELSE EmptyDict)

\* a merge done in place, default_behaviors.update(specific_behaviors): the
\* entry's default behaviors become the merged ones
StoreAfterMergeInPlace(store, func_name, applied_behaviors) ==
    IF /\ func_name \in DOMAIN store
       /\ "behaviors" \in DOMAIN store[func_name]
       /\ "default" \in DOMAIN store[func_name].behaviors
    THEN [store EXCEPT ![func_name].behaviors.default = applied_behaviors]
    ELSE store

\* the store once applied_behaviors, the tags and the metadata are merged:
\* {**default_behaviors, **specific_behaviors} builds a new dict, the context
\* is the left operand of |= and takes a reference to the tag list, so no
\* object of the store is written
StoreAfterMerge(store, func_name, applied_behaviors) == store

\* a base message that does not name the function
BaseMessageAnonymous(func_name) == "Exception caught"

BaseMessage(func_name) == "Exception caught in " \o func_name

\* the suffix appended whenever a message was resolved, empty or not
ComposeMessageAlways(func_name, final_custom_message) ==
    IF final_custom_message # None
    THEN BaseMessage(func_name) \o " - Custom Message: " \o final_custom_message[1]
    ELSE BaseMessage(func_name)

ComposeMessage(func_name, final_custom_message) ==
    IF final_custom_message # None /\ final_custom_message[1] # ""
    THEN BaseMessage(func_name) \o " - Custom Message: " \o final_custom_message[1]
    ELSE BaseMessage(func_name)

\* a merge in which the keys the context already holds win over add_metadata
EnrichContextKeepsContext(ctx, final_tags, applied_behaviors) ==
    LET tagged == IF final_tags # None /\ final_tags[1] # << >>
                  THEN DictMerge(ctx, [tags |-> final_tags[1]])
                  ELSE ctx
    IN IF "add_metadata" \in DOMAIN applied_behaviors
       THEN DictMerge(applied_behaviors.add_metadata, tagged)
       ELSE tagged

\* the context after tags and add_metadata were merged in
EnrichContext(ctx, final_tags, applied_behaviors) ==
    LET tagged == IF final_tags # None /\ final_tags[1] # << >>
                  THEN DictMerge(ctx, [tags |-> final_tags[1]])
                  ELSE ctx
    IN IF "add_metadata" \in DOMAIN applied_behaviors
       THEN DictMerge(tagged, applied_behaviors.add_metadata)
       ELSE tagged

MirroredMessage(target_file, log_message) ==
    "[Mirrored to " \o target_file \o "] " \o log_message

PanicMessage(func_name) ==
    "PANIC MODE ENABLED: Exiting after handling exception in " \o func_name \o "."

----------------------------------------------------------------------------
(* Decoded documents: Python values with their types *)

PyStr(s) == [kind |-> "str", val |-> s]
PyInt(digits) == [kind |-> "int", val |-> digits]
PyBool(b) == [kind |-> "bool", val |-> IF b THEN "True" ELSE "False"]
PyNone == [kind |-> "NoneType", val |-> "None"]
PyList(items) == [kind |-> "list", val |-> items]
PyDict(d) == [kind |-> "dict", val |-> d]

\* isinstance(v, dict), isinstance(v, str)
IsDict(v) == v.kind = "dict"
IsStr(v) == v.kind = "str"

\* 'for x in v' raises TypeError unless v is iterable
Iterable(v) == v.kind = "list"

\* str(v) of a scalar
StrOf(v) == v.val

\* s.strip() on the strings of the documents
Strip(s) ==
    CASE s = " value.log " -> "value.log"
      [] s = "   " -> ""
      [] OTHER -> s

\* bool(v)
Truthy(v) ==
    CASE v.kind = "bool" -> v.val = "True"
      [] v.kind = "NoneType" -> FALSE
      [] v.kind = "str" -> v.val # ""
      [] v.kind = "int" -> v.val # "0"
      [] v.kind = "list" -> v.val # << >>
      [] OTHER -> DOMAIN v.val # {}

\* a decoded mapping of scalars as the store holds it
PlainDict(v) == [k \in DOMAIN v.val |-> StrOf(v.val[k])]

----------------------------------------------------------------------------
(* The names the interpreter can resolve *)

ExcClass(n) == [name |-> n, type |-> TRUE, exception |-> TRUE]
OtherClass(n) == [name |-> n, type |-> TRUE, exception |-> FALSE]

\* the builtins module
BuiltinsNamespace ==
    [ValueError |-> ExcClass("ValueError"),
     TypeError  |-> ExcClass("TypeError"),
     KeyError   |-> ExcClass("KeyError"),
     int        |-> OtherClass("int")]

\* the importable modules and their attributes
ModuleNamespaces ==
    [builtins |-> BuiltinsNamespace,
     json     |-> [JSONDecodeError |-> ExcClass("JSONDecodeError")],
     os       |-> [PathLike |-> OtherClass("PathLike")]]

\* __builtins__ is the builtins module in __main__ and, in CPython, the dict
\* of that module in every imported module
BuiltinsKinds == {"module", "dict"}

\* exception_str.rsplit('.', 1) on the names of the documents
NameParts ==
    [n \in {"ValueError", "TypeError", "KeyError", "int", "NoSuchError",
            "builtins.KeyError", "json.JSONDecodeError", "os.PathLike",
            "os.NoSuchError", "nonexistent_module.NonExistentError"} |->
        CASE n = "builtins.KeyError" -> <<"builtins", "KeyError">>
          [] n = "json.JSONDecodeError" -> <<"json", "JSONDecodeError">>
          [] n = "os.PathLike" -> <<"os", "PathLike">>
          [] n = "os.NoSuchError" -> <<"os", "NoSuchError">>
          [] n = "nonexistent_module.NonExistentError" ->
                 <<"nonexistent_module", "NonExistentError">>
          [] OTHER -> <<n>>]

\* '.' in exception_str
HasDot(name) == Len(NameParts[name]) = 2

\* getattr(__builtins__, exception_str, None): the names of the documents are
\* no attributes of a dict
BuiltinsGetattr(kind, name) ==
    IF kind = "module" /\ name \in DOMAIN BuiltinsNamespace
    THEN Some(BuiltinsNamespace[name])
    ELSE None

\* isinstance(o, type) and issubclass(o, BaseException)
IsExceptionClass(o) == o # None /\ o[1].type /\ o[1].exception

NotASubclass(name) == "'" \o name \o "' is not a BaseException subclass."

\* the body of the try block: the class found, or the text of the exception
\* one of the except clauses catches
LoadClass(kind, name) ==
    LET builtin == BuiltinsGetattr(kind, name)
    IN IF IsExceptionClass(builtin)
       THEN [value |-> builtin, error |-> None]
       ELSE IF ~HasDot(name)
       THEN [value |-> None, error |-> Some(NotASubclass(name))]
       ELSE LET module_name == NameParts[name][1]
                class_name == NameParts[name][2]
            IN IF module_name \notin DOMAIN ModuleNamespaces
               THEN [value |-> None,
                     error |-> Some("No module named '" \o module_name \o "'")]
               ELSE IF class_name \notin DOMAIN ModuleNamespaces[module_name]
               THEN [value |-> None,
                     error |-> Some("module '" \o module_name
                                        \o "' has no attribute '" \o class_name \o "'")]
               ELSE LET found == Some(ModuleNamespaces[module_name][class_name])
                    IN IF IsExceptionClass(found)
                       THEN [value |-> found, error |-> None]
                       ELSE [value |-> None, error |-> Some(NotASubclass(name))]

----------------------------------------------------------------------------
(* The parsers of the configuration document *)

\* a record logged by the loader; 'names' are the values its message interpolates
LogRecord(level, message, names) ==
    [level |-> level, message |-> message, names |-> names]

\* the loop of _load_exception_classes from item i on: the classes appended,
\* in order, and the records logged
RECURSIVE LoadEach(_, _, _, _)
LoadEach(kind, key, items, i) ==
    IF i > Len(items) THEN [classes |-> << >>, log |-> {}]
    ELSE LET rest == LoadEach(kind, key, items, i + 1)
             item == items[i]
         IN IF ~IsStr(item)
            THEN [classes |-> rest.classes,
                  log |-> rest.log \cup
                      {LogRecord("WARNING",
                           "Invalid exception name type for '" \o key \o "': "
                               \o StrOf(item) \o ". Must be a string. Skipping.",
                           {key, StrOf(item)})}]
            ELSE LET r == LoadClass(kind, item.val)
                 IN IF r.error = None
                    THEN [classes |-> <<r.value[1].name>> \o rest.classes,
                          log |-> rest.log]
                    ELSE [classes |-> rest.classes,
                          log |-> rest.log \cup
                              {LogRecord("WARNING",
                                   "Could not load or validate exception '"
                                       \o item.val \o "' for '" \o key \o "': "
                                       \o r.error[1] \o ". Skipping.",
                                   {key, item.val})}]

\* raised: the TypeError of iterating a value that is no list
_load_exception_classes(kind, key, exceptions) ==
    IF ~Iterable(exceptions)
    THEN [raised |-> Some("TypeError"), value |-> << >>, log |-> {}]
    ELSE LET r == LoadEach(kind, key, exceptions.val, 1)
         IN [raised |-> None, value |-> r.classes, log |-> r.log]

\* the action keys _parse_behaviors validates
ActionKeys == {"add_metadata", "log_to_specific_file"}

\* a test that takes every non-empty string, blank or not
ValidLogFileNotEmpty(v) == IsStr(v) /\ v.val # ""

\* isinstance(log_file, str) and log_file.strip()
ValidLogFile(v) == IsStr(v) /\ Strip(v.val) # ""

\* current_behavior_actions of one behavior definition that is a dict, and
\* the warnings of its invalid actions
ParseActions(func_key, behavior_key, behavior_def) ==
    LET def == behavior_def.val
        has_md == "add_metadata" \in DOMAIN def
        has_lf == "log_to_specific_file" \in DOMAIN def
        md == IF has_md /\ IsDict(def.add_metadata)
              THEN [add_metadata |-> PlainDict(def.add_metadata)] ELSE EmptyDict
        lf == IF has_lf /\ ValidLogFile(def.log_to_specific_file)
              THEN [log_to_specific_file |-> Strip(def.log_to_specific_file.val)]
              ELSE EmptyDict
    IN [actions |-> DictMerge(md, lf),
        log |->
            (IF has_md /\ ~IsDict(def.add_metadata)
             THEN {LogRecord("WARNING",
                       "'add_metadata' for behavior '" \o behavior_key
                           \o "' under function '" \o func_key
                           \o "' is not a dictionary. Skipping 'add_metadata'.",
                       {func_key, behavior_key, "add_metadata"})}
             ELSE {})
            \cup
            (IF has_lf /\ ~ValidLogFile(def.log_to_specific_file)
             THEN {LogRecord("WARNING",
                       "'log_to_specific_file' for behavior '" \o behavior_key
                           \o "' under function '" \o func_key
                           \o "' is not a valid string. Skipping 'log_to_specific_file'.",
                       {func_key, behavior_key, "log_to_specific_file"})}
             ELSE {})
            \cup
            (IF DOMAIN DictMerge(md, lf) = {}
             THEN {LogRecord("INFO",
                       "No valid actions found for behavior key '" \o behavior_key
                           \o "' under function '" \o func_key \o "'.",
                       {func_key, behavior_key})}
             ELSE {})]

\* whether a behavior key with these actions is stored
StoresBehavior(actions) == DOMAIN actions # {}

_parse_behaviors(func_key, behaviors_config) ==
    IF ~IsDict(behaviors_config)
    THEN [value |-> EmptyDict,
          log |-> {LogRecord("WARNING",
                       "Behaviors config for '" \o func_key
                           \o "' is not a dictionary. Skipping behaviors.",
                       {func_key})}]
    ELSE LET defs == behaviors_config.val
             dicts == {k \in DOMAIN defs : IsDict(defs[k])}
             kept == {k \in dicts :
                         StoresBehavior(ParseActions(func_key, k, defs[k]).actions)}
         IN [value |-> [k \in kept |-> ParseActions(func_key, k, defs[k]).actions],
             log |->
                 {LogRecord("WARNING",
                      "Definition for behavior key '" \o k \o "' under function '"
                          \o func_key
                          \o "' is not a dictionary. Skipping this behavior entry.",
                      {func_key, k}) : k \in (DOMAIN defs) \ dicts}
                 \cup UNION {ParseActions(func_key, k, defs[k]).log : k \in dicts}]

\* isinstance(tag, (str, int, float)); bool is a subclass of int
IsTagScalar(v) == v.kind \in {"str", "int", "float", "bool"}

RECURSIVE StrEach(_)
StrEach(items) ==
    IF items = << >> THEN << >>
    ELSE <<StrOf(Head(items))>> \o StrEach(Tail(items))

\* the entry stored for a function key, given what loading its classes and
\* parsing its behaviors gave
StoredEntry(entry, classes, behaviors) ==
    LET tags == DictGet(entry, "tags", PyList(<< >>))
        raised == IF classes.raised # None THEN classes.raised
                  ELSE IF ~Iterable(tags) THEN Some("TypeError") ELSE None
    IN [raised |-> raised,
        value |->
            IF raised # None THEN EmptyDict
            ELSE [exceptions |-> classes.value,
                  custom_message |-> StrOf(DictGet(entry, "custom_message", PyStr(""))),
                  tags |-> StrEach(SelectSeq(tags.val, IsTagScalar)),
                  behaviors |-> behaviors.value],
        log |-> classes.log \cup behaviors.log]

\* one function key of the document whose value is a dict
ParseEntry(kind, key, value) ==
    StoredEntry(value.val,
        _load_exception_classes(kind, key,
            DictGet(value.val, "exceptions", PyList(<< >>))),
        _parse_behaviors(key, DictGet(value.val, "behaviors", PyDict(EmptyDict))))

\* the keys _parse_exception_config looks at
FunctionKeys(raw_config) == (DOMAIN raw_config.val) \ {"debug_mode"}

\* what the loop over the function keys leaves, 'entries' being what
\* ParseEntry gave for the keys whose value is a dict. raised: the exception
\* that leaves the loop, if an entry raises one; value:
\* parsed_exception_config; log: the records logged (their order is that of
\* the document's keys and is not kept)
ParsedConfig(keys, entries) ==
    LET raising == {k \in DOMAIN entries : entries[k].raised # None}
    IN [raised |-> IF raising = {} THEN None
                   ELSE entries[CHOOSE k \in raising : TRUE].raised,
        value |-> [k \in DOMAIN entries |-> entries[k].value],
        log |->
            {LogRecord("WARNING",
                 "Configuration for '" \o k \o "' is not a dictionary. Skipping.",
                 {k}) : k \in keys \ DOMAIN entries}
            \cup UNION {entries[k].log : k \in DOMAIN entries}]

_parse_exception_config(kind, raw_config) ==
    ParsedConfig(FunctionKeys(raw_config),
        [k \in {f \in FunctionKeys(raw_config) : IsDict(raw_config.val[f])} |->
            ParseEntry(kind, k, raw_config.val[k])])

----------------------------------------------------------------------------
(* Configuration files *)

DEFAULT_LOG_FORMAT == "<green>{time}</green> | <level>{level}</level> | {name}:{function}:{line} - {message}"
DEFAULT_AUX_LOG_FORMAT == "{time:YYYY-MM-DD HH:mm:ss} | {level} | {message} | Extra: {extra}"

\* a document of the documented shape: built-in and module.ClassName names
DocValid ==
    PyDict([debug_mode |-> PyBool(TRUE),
            F |-> PyDict([exceptions |-> PyList(<<PyStr("ValueError"),
                                                  PyStr("builtins.KeyError")>>),
                          custom_message |-> PyStr("bad input"),
                          tags |-> PyList(<<PyStr("x")>>)]),
            G |-> PyDict([exceptions |-> PyList(<<PyStr("json.JSONDecodeError")>>),
                          custom_message |-> PyStr("types"),
                          tags |-> PyList(<<PyStr("database"), PyStr("io")>>)])])

\* names that resolve to no exception class, among names that do
DocNames ==
    PyDict([LOG_FORMAT |-> PyStr("{message}"),
            F |-> PyDict([exceptions |-> PyList(<<PyStr("TypeError")>>)]),
            G |-> PyDict([exceptions |->
                              PyList(<<PyStr("NoSuchError"),
                                       PyStr("KeyError"),
                                       PyStr("os.PathLike"),
                                       PyStr("nonexistent_module.NonExistentError"),
                                       PyInt("7"),
                                       PyStr("json.JSONDecodeError"),
                                       PyStr("os.NoSuchError"),
                                       PyStr("int")>>),
                          custom_message |-> PyStr("lookup"),
                          tags |-> PyList(<<PyStr("y")>>)])])

\* behaviors, well-formed and malformed
DocBehaviors ==
    PyDict([debug_mode |-> PyBool(FALSE),
            F |-> PyDict(
                [exceptions |-> PyList(<<PyStr("builtins.KeyError")>>),
                 custom_message |-> PyStr("bad input"),
                 tags |-> PyList(<<PyStr("x")>>),
                 behaviors |-> PyDict(
                     [ValueError |->
                          PyDict([add_metadata |-> PyDict([error_code |-> PyStr("VE001")]),
                                  log_to_specific_file |-> PyStr(" value.log ")]),
                      TypeError |->
                          PyDict([add_metadata |-> PyStr("not_a_dict"),
                                  log_to_specific_file |-> PyInt("12345")]),
                      KeyError |->
                          PyDict([add_metadata |-> PyDict([error_code |-> PyStr("KE001")]),
                                  log_to_specific_file |-> PyStr("   "),
                                  custom_callback |-> PyStr("notify")]),
                      default |-> PyStr("not_a_dict_either")])]),
            G |-> PyDict([behaviors |-> PyStr("none")])])

\* 'exceptions:' with nothing after it decodes to None
DocNullExceptions ==
    PyDict([debug_mode |-> PyBool(TRUE),
            F |-> PyDict([exceptions |-> PyNone,
                          custom_message |-> PyStr("bad input")]),
            G |-> PyDict([exceptions |-> PyList(<<PyStr("builtins.KeyError")>>)])])

\* a document that configures one function only
DocSingle ==
    PyDict([G |-> PyDict([exceptions |-> PyList(<<PyStr("builtins.KeyError")>>),
                          custom_message |-> PyStr("only G")])])

Documents == {DocValid, DocNames, DocBehaviors, DocNullExceptions}

\* what a file holds: text the decoder rejects, or text that decodes to root
Garbage == [decodes |-> FALSE, root |-> PyNone]
Text(root) == [decodes |-> TRUE, root |-> root]

DefaultExtensions == <<"json", "yaml", "yml", "toml">>
Extensions == {"json", "yaml", "yml", "toml", "ini"}

\* the supported_extensions a caller passes
ExtensionLists == {DefaultExtensions, <<"ini", "toml">>}

\* the contents '<prefix>.<ext>' is written with; a TOML root is a table and
\* TOML has no null
FileChoices ==
    [json |-> {Garbage, Text(PyList(<< >>))} \cup {Text(doc) : doc \in Documents},
     yaml |-> {Garbage, Text(PyNone), Text(DocBehaviors)},
     yml  |-> {Text(DocValid), Text(DocSingle)},
     toml |-> {Garbage, Text(DocNames)},
     ini  |-> {Text(DocValid)}]

NoFiles == [ext \in Extensions |-> None]

\* _find_config_file: the first extension, in the order given, whose file exists
RECURSIVE FindConfigFile(_, _, _)
FindConfigFile(fs, supported_extensions, i) ==
    IF i > Len(supported_extensions) THEN None
    ELSE IF fs[supported_extensions[i]] # None THEN Some(supported_extensions[i])
    ELSE FindConfigFile(fs, supported_extensions, i + 1)

\* _load_config_file: the decoded root, or the ValueError of its except clauses
LoadConfigFile(ext, content) ==
    IF ext \notin {"json", "yaml", "yml", "toml"}
    THEN [raised |-> Some("ValueError"), value |-> PyNone,
          log |-> {LogRecord("ERROR",
                       "Unsupported configuration file format encountered: " \o ext,
                       {ext}),
                   LogRecord("ERROR",
                       "Unexpected error reading DynEL configuration file", {ext})}]
    ELSE IF ~content.decodes
    THEN [raised |-> Some("ValueError"), value |-> PyNone,
          log |-> {LogRecord("ERROR",
                       "Error parsing DynEL configuration file", {ext})}]
    ELSE [raised |-> None, value |-> content.root, log |-> {}]

\* _validate_config_dict
ValidateConfigDict(ext, raw_config) ==
    IF ~IsDict(raw_config)
    THEN [raised |-> Some("ValueError"),
          log |-> {LogRecord("ERROR",
                       "Invalid DynEL configuration file: Expected a dictionary (object/map) at the root, got "
                           \o raw_config.kind \o ".", {ext})}]
    ELSE [raised |-> None, log |-> {}]

\* raw_config.get(name, current) for the three settings at the root
RootSetting(raw_config, name, current) ==
    IF name \in DOMAIN raw_config.val THEN raw_config.val[name] ELSE current

\* an assignment that adds the parsed entries to the store in place
AssignParsedMerging(settings, found, parsed) ==
    [raised |-> parsed.raised,
     found |-> found,
     cfg |-> IF parsed.raised # None THEN settings
             ELSE [settings EXCEPT
                      !.EXCEPTION_CONFIG = DictMerge(@, parsed.value)],
     log |-> parsed.log]

\* the end of the call: the three settings are assigned already, the store
\* is assigned unless the parser raised
AssignParsed(settings, found, parsed) ==
    [raised |-> parsed.raised,
     found |-> found,
     cfg |-> IF parsed.raised # None THEN settings
             ELSE [settings EXCEPT !.EXCEPTION_CONFIG = parsed.value],
     log |-> parsed.log]

\* the call as a whole: the exception it raises, if any, the fields of the
\* configuration after it and the records it logged
LoadOutcome(cfg, fs, kind, supported_extensions) ==
    LET found == FindConfigFile(fs, supported_extensions, 1)
        unchanged == [raised |-> None, found |-> found, cfg |-> cfg, log |-> {}]
    IN IF found = None
       THEN [unchanged EXCEPT !.raised = Some("FileNotFoundError")]
       ELSE LET loaded == LoadConfigFile(found[1], fs[found[1]][1])
            IN IF loaded.raised # None
               THEN [unchanged EXCEPT !.raised = loaded.raised, !.log = loaded.log]
               ELSE LET raw_config == loaded.value
                        valid == ValidateConfigDict(found[1], raw_config)
                    IN IF valid.raised # None
                       THEN [unchanged EXCEPT !.raised = valid.raised, !.log = valid.log]
                       ELSE AssignParsed(
                                [cfg EXCEPT
                                    !.DEBUG_MODE =
                                        RootSetting(raw_config, "debug_mode", @),
                                    !.LOG_FORMAT =
                                        RootSetting(raw_config, "LOG_FORMAT", @),
                                    !.AUX_LOG_FORMAT =
                                        RootSetting(raw_config, "AUX_LOG_FORMAT", @)],
                                found,
                                _parse_exception_config(kind, raw_config))

----------------------------------------------------------------------------
(* State *)

\* the locals of handle_exception before it runs
IdleFrame ==
    [via |-> None,                  \* Some(member) when called by a wrapper's onerror
     caller |-> "",                 \* name of the function that called handle_exception
     error |-> "",                  \* class of the exception instance passed in
     func_name |-> "",
     function_config |-> None,
     custom_context_dict |-> EmptyDict,
     log_message |-> "",
     configured_exc_type |-> None,  \* the listed type the loop stopped at
     final_custom_message |-> None,
     final_tags |-> None,
     specific_behaviors |-> None,
     default_behaviors |-> EmptyDict,
     applied_behaviors |-> EmptyDict,
     target_file |-> None,
     handler_id |-> None,
     aux_fault |-> None,            \* Some("add") / Some("emit"): what failed in the try block
     raised |-> None,               \* an exception leaving handle_exception, if any
     handlers_at_entry |-> {}]      \* the handlers attached when the call began

\* no member called yet; 'replaced' are the members that were wrappers when
\* the call was made, 'implicit' the first argument the lookup bound
NoCall == [member |-> None, receiver |-> "", implicit |-> "", replaced |-> {},
           body |-> None, result |-> None, he_calls |-> 0]

\* the members module_exception_handler replaces by a wrapper
WrappedMembers == {m \in Members : WrapBranch(GetMembersValue(MemberKind[m])).wraps}

\* what the owner's namespace holds for member m, given the members replaced
Attached(m, replaced) ==
    IF m \in replaced
    THEN WrapBranch(GetMembersValue(MemberKind[m])).descriptor
    ELSE OriginalDescriptor(MemberKind[m])

\* what calling the original callable with the arguments bound does: the body
\* runs, or the call raises the TypeError of a wrong number of arguments
CallOutcome(m, implicit, body) ==
    IF implicit = ExpectedArg(MemberKind[m]) THEN body
    ELSE [kind |-> "raises", value |-> "TypeError"]

\* what the body of a wrapped callable does
BodyOutcomes ==
    {[kind |-> "returns", value |-> "result"]}
        \cup {[kind |-> "raises", value |-> e] : e \in ExceptionClasses}

AllIdle == \A t \in Threads : pc[t] = "idle"
Running == exit_status = None

\* a call may begin while a handler id is left for each call in progress and itself
IdsLeft ==
    next_handler_id + Cardinality({t \in Threads : pc[t] # "idle"}) < MaxHandlerId

\* the destinations as a capturing sink set up before the calls sees them
SinksAtCall == IF AllIdle THEN EmptySinks ELSE sinks

\* DynelConfig() as constructed, the logger as imported, nothing wrapped
InitProgram ==
    /\ EXCEPTION_CONFIG = EmptyDict
    /\ PANIC_MODE \in BOOLEAN
    /\ CUSTOM_CONTEXT_LEVEL \in Levels
    /\ handlers = DefaultHandlers
    /\ next_handler_id = 1
    /\ sinks = EmptySinks
    /\ wrapped = {}
    /\ pc = [t \in Threads |-> "idle"]
    /\ frame = [t \in Threads |-> IdleFrame]
    /\ wcall = [t \in Threads |-> NoCall]
    /\ exit_status = None
    /\ DEBUG_MODE = PyBool(FALSE)
    /\ LOG_FORMAT = PyStr(DEFAULT_LOG_FORMAT)
    /\ AUX_LOG_FORMAT = PyStr(DEFAULT_AUX_LOG_FORMAT)
    /\ load_result = None
    /\ _tracked_handler_ids = << >>
    /\ load_log = {}

\* the program on Linux under CPython, no configuration file
Init ==
    /\ InitProgram
    /\ sysconf_names = LinuxSysconfNames
    /\ files = NoFiles
    /\ builtins_kind = "dict"

\* the program on any of the platforms
InitAnyPlatform ==
    /\ InitProgram
    /\ sysconf_names \in SysconfPlatforms
    /\ files = NoFiles
    /\ builtins_kind = "dict"

----------------------------------------------------------------------------
(* Configuration and wrapping *)

\* config.EXCEPTION_CONFIG = store, between calls; what was observed of the
\* calls made under the previous store is dropped
AssignExceptionConfig(store) ==
    /\ Running /\ AllIdle
    /\ EXCEPTION_CONFIG # store
    /\ EXCEPTION_CONFIG' = store
    /\ sinks' = EmptySinks
    /\ frame' = [t \in Threads |-> IdleFrame]
    /\ wcall' = [t \in Threads |-> NoCall]
    /\ UNCHANGED <<PANIC_MODE, CUSTOM_CONTEXT_LEVEL, handlers, next_handler_id,
                   wrapped, pc, exit_status, sysconf_names, LoaderVars>>

\* module_exception_handler(config, module): every function of the module and
\* every callable of its classes that inspect.getmembers yields as a function
\* is replaced by logger.catch(onerror=_onerror_handler, reraise=True)(function)
module_exception_handler ==
    /\ Running /\ AllIdle
    /\ wrapped # WrappedMembers
    /\ wrapped' = WrappedMembers
    /\ UNCHANGED <<EXCEPTION_CONFIG, PANIC_MODE, CUSTOM_CONTEXT_LEVEL, handlers,
                   next_handler_id, sinks, pc, frame, wcall, exit_status,
                   sysconf_names, LoaderVars>>

----------------------------------------------------------------------------
(* Calls *)

EnterHandleException(t, caller, e, via) ==
    [IdleFrame EXCEPT !.via = via, !.caller = caller, !.error = e,
                      !.handlers_at_entry = handlers]

\* a function named f catches e and calls handle_exception(config, e) itself
DirectCall(t, f, e) ==
    /\ Running /\ pc[t] = "idle" /\ IdsLeft
    /\ frame' = [frame EXCEPT ![t] = EnterHandleException(t, f, e, None)]
    /\ wcall' = [wcall EXCEPT ![t] = NoCall]
    /\ sinks' = SinksAtCall
    /\ pc' = [pc EXCEPT ![t] = "gather"]
    /\ UNCHANGED <<EXCEPTION_CONFIG, PANIC_MODE, CUSTOM_CONTEXT_LEVEL, handlers,
                   next_handler_id, wrapped, exit_status, sysconf_names,
                   LoaderVars>>

\* member m, replaced by its wrapper, is called on receiver: the wrapper calls
\* the original callable. That returns: the wrapper returns its result. It
\* raises e: loguru's catch logs the exception, then calls onerror(e), and
\* _onerror_handler calls handle_exception(cfg, e)
WrappedCall(t, m, receiver, requested) ==
    /\ Running /\ pc[t] = "idle" /\ IdsLeft
    /\ m \in wrapped
    /\ LET implicit == ImplicitArg(Attached(m, wrapped), receiver)
           body == CallOutcome(m, implicit, requested)
           call == [member |-> Some(m), receiver |-> receiver, implicit |-> implicit,
                    replaced |-> wrapped,
                    body |-> Some(body), result |-> None, he_calls |-> 0]
       IN IF body.kind = "returns"
          THEN /\ wcall' = [wcall EXCEPT ![t] = [call EXCEPT
                     !.result = Some([kind |-> "returned", value |-> body.value])]]
               /\ sinks' = SinksAtCall
               /\ frame' = [frame EXCEPT ![t] = IdleFrame]
               /\ UNCHANGED pc
          ELSE /\ wcall' = [wcall EXCEPT ![t] = [call EXCEPT !.he_calls = 1]]
               /\ sinks' = Deliver(SinksAtCall, handlers,
                     Record(ERROR, "An error has been caught in function " \o m,
                            EmptyDict, Some(body.value), "catch", t))
               /\ frame' = [frame EXCEPT ![t] =
                     EnterHandleException(t, OnErrorName, body.value, Some(m))]
               /\ pc' = [pc EXCEPT ![t] = "gather"]
    /\ UNCHANGED <<EXCEPTION_CONFIG, PANIC_MODE, CUSTOM_CONTEXT_LEVEL, handlers,
                   next_handler_id, wrapped, exit_status, sysconf_names,
                   LoaderVars>>

\* member m, not replaced, is called on receiver: no wrapper runs, what the
\* callable raises reaches the caller as it is and nothing is routed
PlainCall(t, m, receiver, requested) ==
    /\ Running /\ pc[t] = "idle"
    /\ m \notin wrapped
    /\ LET implicit == ImplicitArg(Attached(m, wrapped), receiver)
           body == CallOutcome(m, implicit, requested)
       IN wcall' = [wcall EXCEPT ![t] =
              [member |-> Some(m), receiver |-> receiver, implicit |-> implicit,
               replaced |-> wrapped,
               body |-> Some(body),
               result |-> Some([kind |-> IF body.kind = "returns"
                                         THEN "returned" ELSE "raised",
                                value |-> body.value]),
               he_calls |-> 0]]
    /\ sinks' = SinksAtCall
    /\ frame' = [frame EXCEPT ![t] = IdleFrame]
    /\ UNCHANGED <<EXCEPTION_CONFIG, PANIC_MODE, CUSTOM_CONTEXT_LEVEL, handlers,
                   next_handler_id, wrapped, pc, exit_status, sysconf_names,
                   LoaderVars>>

----------------------------------------------------------------------------
(* handle_exception, step by step *)

CfgVars == <<EXCEPTION_CONFIG, PANIC_MODE, CUSTOM_CONTEXT_LEVEL, wrapped,
             sysconf_names, LoaderVars>>

\* os.sysconf("SC_AVPHYS_PAGES") raises ValueError for a name the platform
\* does not know; 'except (OSError, AttributeError)' does not catch it
SysconfRaisesValueError(level, names) ==
    level = "DETAILED" /\ "SC_AVPHYS_PAGES" \notin names

\* func_name, function_config and the context of the configured level; the
\* probes of DETAILED succeed or raise what their except clauses catch, and
\* the ValueError of an unknown sysconf name leaves handle_exception
he_gather(t) ==
    /\ Running /\ pc[t] = "gather"
    /\ \E locals_state \in LocalsStates, sysconf_ok \in BOOLEAN, environ_ok \in BOOLEAN :
          LET looked_up == [frame[t] EXCEPT
                  !.func_name = frame[t].caller,
                  !.function_config =
                      IF frame[t].caller \in DOMAIN EXCEPTION_CONFIG
                      THEN Some(EXCEPTION_CONFIG[frame[t].caller]) ELSE None]
          IN IF SysconfRaisesValueError(CUSTOM_CONTEXT_LEVEL, sysconf_names)
             THEN /\ frame' = [frame EXCEPT ![t] = [looked_up EXCEPT
                        !.custom_context_dict =
                            GatherContext("MEDIUM", locals_state, sysconf_ok, environ_ok),
                        !.raised = Some(UnrecognizedName)]]
                  /\ pc' = [pc EXCEPT ![t] = "return"]
             ELSE /\ frame' = [frame EXCEPT ![t] = [looked_up EXCEPT
                        !.custom_context_dict =
                            GatherContext(CUSTOM_CONTEXT_LEVEL, locals_state,
                                          sysconf_ok, environ_ok)]]
                  /\ pc' = [pc EXCEPT ![t] = "compose"]
    /\ UNCHANGED <<CfgVars, handlers, next_handler_id, sinks, wcall, exit_status>>

\* the rule is resolved, the message composed, tags and metadata merged
he_compose(t) ==
    /\ Running /\ pc[t] = "compose"
    /\ LET f == frame[t]
           r == Resolve(f.function_config, f.error)
           d == DefaultBehaviors(f.function_config)
           a == AppliedBehaviors(d, r.specific_behaviors)
       IN frame' = [frame EXCEPT
              ![t].configured_exc_type = r.configured_exc_type,
              ![t].final_custom_message = r.final_custom_message,
              ![t].final_tags = r.final_tags,
              ![t].specific_behaviors = r.specific_behaviors,
              ![t].default_behaviors = d,
              ![t].applied_behaviors = a,
              ![t].log_message = ComposeMessage(f.func_name, r.final_custom_message),
              ![t].custom_context_dict = EnrichContext(f.custom_context_dict, r.final_tags, a)]
    /\ EXCEPTION_CONFIG' =
           StoreAfterMerge(EXCEPTION_CONFIG, frame[t].func_name,
               AppliedBehaviors(DefaultBehaviors(frame[t].function_config),
                   Resolve(frame[t].function_config, frame[t].error).specific_behaviors))
    /\ pc' = [pc EXCEPT ![t] = "primary"]
    /\ UNCHANGED <<PANIC_MODE, CUSTOM_CONTEXT_LEVEL, wrapped, sysconf_names, LoaderVars,
                   handlers, next_handler_id, sinks, wcall, exit_status>>

\* bound_logger.exception(log_message, exception=error)
he_primary(t) ==
    /\ Running /\ pc[t] = "primary"
    /\ sinks' = Deliver(sinks, handlers,
          Record(ERROR, frame[t].log_message, frame[t].custom_context_dict,
                 Some(frame[t].error), "primary", t))
    /\ pc' = [pc EXCEPT ![t] = "aux_open"]
    /\ UNCHANGED <<CfgVars, handlers, next_handler_id, frame, wcall, exit_status>>

\* a try block with no except clause
ExceptClauseMissing == FALSE

\* where the try block continues when a call in it raises: the except clause
\* catches every Exception
ExceptClauseCatches == TRUE

AfterFault(f, what) ==
    IF ExceptClauseCatches
    THEN [f EXCEPT !.aux_fault = Some(what)]
    ELSE [f EXCEPT !.aux_fault = Some(what), !.raised = Some("AuxiliarySinkError")]

PcAfterFault == IF ExceptClauseCatches THEN "aux_except" ELSE "aux_finally"

\* an auxiliary handler that admits every level
AuxHandlerAnyLevel(id, target) == [id |-> id, sink |-> target, level |-> DEBUG]

\* logger.add(target_file, level="ERROR", ...)
AuxHandler(id, target) == [id |-> id, sink |-> target, level |-> ERROR]

\* without log_to_specific_file nothing is attached; with it logger.add
\* attaches the auxiliary handler, or raises
he_aux_open(t) ==
    /\ Running /\ pc[t] = "aux_open"
    /\ IF "log_to_specific_file" \notin DOMAIN frame[t].applied_behaviors
       THEN /\ pc' = [pc EXCEPT ![t] = "panic"]
            /\ UNCHANGED <<frame, handlers, next_handler_id>>
       ELSE LET target == frame[t].applied_behaviors.log_to_specific_file
            IN \E ok \in BOOLEAN :
                 IF ok
                 THEN /\ handlers' = handlers \cup {AuxHandler(next_handler_id, target)}
                      /\ next_handler_id' = next_handler_id + 1
                      /\ frame' = [frame EXCEPT ![t].target_file = Some(target),
                                                ![t].handler_id = Some(next_handler_id)]
                      /\ pc' = [pc EXCEPT ![t] = "aux_emit"]
                 ELSE /\ frame' = [frame EXCEPT ![t] =
                            AfterFault([frame[t] EXCEPT !.target_file = Some(target)], "add")]
                      /\ pc' = [pc EXCEPT ![t] = PcAfterFault]
                      /\ UNCHANGED <<handlers, next_handler_id>>
    /\ UNCHANGED <<CfgVars, sinks, wcall, exit_status>>

\* logger.bind(**context).exception("[Mirrored to ...] ...", exception=error):
\* the record goes to every attached handler, or the call raises
he_aux_emit(t) ==
    /\ Running /\ pc[t] = "aux_emit"
    /\ \E ok \in BOOLEAN :
         IF ok
         THEN /\ sinks' = Deliver(sinks, handlers,
                    Record(ERROR,
                           MirroredMessage(frame[t].target_file[1], frame[t].log_message),
                           frame[t].custom_context_dict, Some(frame[t].error),
                           "mirrored", t))
              /\ pc' = [pc EXCEPT ![t] = "aux_info"]
              /\ UNCHANGED frame
         ELSE /\ frame' = [frame EXCEPT ![t] = AfterFault(frame[t], "emit")]
              /\ pc' = [pc EXCEPT ![t] = PcAfterFault]
              /\ UNCHANGED sinks
    /\ UNCHANGED <<CfgVars, handlers, next_handler_id, wcall, exit_status>>

\* logger.info("Logged details for error in ... to ...")
he_aux_info(t) ==
    /\ Running /\ pc[t] = "aux_info"
    /\ sinks' = Deliver(sinks, handlers,
          Record(INFO,
                 "Logged details for error in " \o frame[t].func_name
                     \o " to " \o frame[t].target_file[1],
                 EmptyDict, None, "info", t))
    /\ pc' = [pc EXCEPT ![t] = "aux_finally"]
    /\ UNCHANGED <<CfgVars, handlers, next_handler_id, frame, wcall, exit_status>>

\* except Exception: logger.error("Failed to log to specific file ...")
he_aux_except(t) ==
    /\ Running /\ pc[t] = "aux_except"
    /\ sinks' = Deliver(sinks, handlers,
          Record(ERROR,
                 "Failed to log to specific file " \o frame[t].target_file[1]
                     \o " for " \o frame[t].func_name,
                 EmptyDict, None, "failed", t))
    /\ pc' = [pc EXCEPT ![t] = "aux_finally"]
    /\ UNCHANGED <<CfgVars, handlers, next_handler_id, frame, wcall, exit_status>>

\* a finally clause that removes nothing
HandlersAfterFinallyLeak(hs, handler_id) == hs

\* the handlers left attached by the finally clause
HandlersAfterFinally(hs, handler_id) ==
    IF handler_id # None THEN {h \in hs : h.id # handler_id[1]} ELSE hs

\* finally: logger.remove(handler_id) when a handler was added
he_aux_finally(t) ==
    /\ Running /\ pc[t] = "aux_finally"
    /\ handlers' = HandlersAfterFinally(handlers, frame[t].handler_id)
    /\ pc' = [pc EXCEPT ![t] = IF frame[t].raised = None THEN "panic" ELSE "return"]
    /\ UNCHANGED <<CfgVars, next_handler_id, sinks, frame, wcall, exit_status>>

\* the status sys.exit is called with
ExitCode == 1

\* a panic branch that is never taken
PanicBranchNever(panic_mode) == FALSE

\* whether the panic branch is taken
PanicBranch(panic_mode) == panic_mode

\* if config.PANIC_MODE: logger.critical(...)
he_panic(t) ==
    /\ Running /\ pc[t] = "panic"
    /\ IF PanicBranch(PANIC_MODE)
       THEN /\ sinks' = Deliver(sinks, handlers,
                  Record(CRITICAL, PanicMessage(frame[t].func_name),
                         EmptyDict, None, "critical", t))
            /\ pc' = [pc EXCEPT ![t] = "sys_exit"]
       ELSE /\ pc' = [pc EXCEPT ![t] = "return"]
            /\ UNCHANGED sinks
    /\ UNCHANGED <<CfgVars, handlers, next_handler_id, frame, wcall, exit_status>>

\* sys.exit(1): SystemExit leaves handle_exception and ends the process
he_sys_exit(t) ==
    /\ Running /\ pc[t] = "sys_exit"
    /\ exit_status' = Some(ExitCode)
    /\ frame' = [frame EXCEPT ![t].raised = Some("SystemExit")]
    /\ wcall' = [wcall EXCEPT ![t].result =
          IF wcall[t].member # None
          THEN Some([kind |-> "raised", value |-> "SystemExit"]) ELSE None]
    /\ pc' = [pc EXCEPT ![t] = "exited"]
    /\ UNCHANGED <<CfgVars, handlers, next_handler_id, sinks>>

\* a handler that raises an exception of its own in place of the one it was given
OnErrorRaiseOther(e) == "RuntimeError"

\* what _onerror_handler raises once handle_exception returned
OnErrorRaise(e) == e

\* handle_exception is left. A direct caller goes on; _onerror_handler raises
\* the exception it was given (an exception leaving handle_exception replaces it)
he_return(t) ==
    /\ Running /\ pc[t] = "return"
    /\ wcall' = [wcall EXCEPT ![t].result =
          IF frame[t].via = None THEN None
          ELSE IF frame[t].raised # None
               THEN Some([kind |-> "raised", value |-> frame[t].raised[1]])
               ELSE Some([kind |-> "raised", value |-> OnErrorRaise(frame[t].error)])]
    /\ pc' = [pc EXCEPT ![t] = "idle"]
    /\ UNCHANGED <<CfgVars, handlers, next_handler_id, sinks, frame, exit_status>>

----------------------------------------------------------------------------
(* Specification: one thread, calls one after the other *)

Step(t) ==
    \/ \E f \in FuncNames, e \in ExceptionClasses : DirectCall(t, f, e)
    \/ \E m \in ModuleFunctions, body \in BodyOutcomes :
           WrappedCall(t, m, "module", body)
    \/ he_gather(t)
    \/ he_compose(t)
    \/ he_primary(t)
    \/ he_aux_open(t)
    \/ he_aux_emit(t)
    \/ he_aux_info(t)
    \/ he_aux_except(t)
    \/ he_aux_finally(t)
    \/ he_panic(t)
    \/ he_sys_exit(t)
    \/ he_return(t)

Next ==
    \/ \E store \in RuleStores : AssignExceptionConfig(store)
    \/ module_exception_handler
    \/ Step(MainThread)

Spec == Init /\ [][Next]_vars

\* the same program, the platform left open
SpecAnyPlatform == InitAnyPlatform /\ [][Next]_vars

\* the steps of handle_exception
he_step(t) ==
    \/ he_gather(t)
    \/ he_compose(t)
    \/ he_primary(t)
    \/ he_aux_open(t)
    \/ he_aux_emit(t)
    \/ he_aux_info(t)
    \/ he_aux_except(t)
    \/ he_aux_finally(t)
    \/ he_panic(t)
    \/ he_sys_exit(t)
    \/ he_return(t)

\* the functions of the module and the methods of its class are called, on the
\* class and on an instance, before and after module_exception_handler
NextMembers ==
    \/ \E store \in RuleStores : AssignExceptionConfig(store)
    \/ module_exception_handler
    \/ \E m \in Members, body \in BodyOutcomes :
           \E receiver \in ReceiversOf(MemberKind[m]) :
               \/ WrappedCall(MainThread, m, receiver, body)
               \/ PlainCall(MainThread, m, receiver, body)
    \/ he_step(MainThread)

SpecMembers == Init /\ [][NextMembers]_vars

----------------------------------------------------------------------------
(* Loading the rule store *)

\* '<prefix>.<ext>' is written
WriteFile(ext, content) ==
    /\ Running /\ AllIdle
    /\ files[ext] # Some(content)
    /\ files' = [files EXCEPT ![ext] = Some(content)]
    /\ load_result' = None
    /\ load_log' = {}
    /\ UNCHANGED <<HandlingVars, DEBUG_MODE, LOG_FORMAT, AUX_LOG_FORMAT, builtins_kind,
                   _tracked_handler_ids>>

\* '<prefix>.<ext>' is deleted
RemoveFile(ext) ==
    /\ Running /\ AllIdle
    /\ files[ext] # None
    /\ files' = [files EXCEPT ![ext] = None]
    /\ load_result' = None
    /\ load_log' = {}
    /\ UNCHANGED <<HandlingVars, DEBUG_MODE, LOG_FORMAT, AUX_LOG_FORMAT, builtins_kind,
                   _tracked_handler_ids>>

\* the fields of the configuration load_exception_config assigns
ConfigFields ==
    [EXCEPTION_CONFIG |-> EXCEPTION_CONFIG, DEBUG_MODE |-> DEBUG_MODE,
     LOG_FORMAT |-> LOG_FORMAT, AUX_LOG_FORMAT |-> AUX_LOG_FORMAT]

\* the configuration and what is observed of the call, once it is over
LoadEnds(outcome, supported_extensions) ==
    /\ EXCEPTION_CONFIG' = outcome.cfg.EXCEPTION_CONFIG
    /\ DEBUG_MODE' = outcome.cfg.DEBUG_MODE
    /\ LOG_FORMAT' = outcome.cfg.LOG_FORMAT
    /\ AUX_LOG_FORMAT' = outcome.cfg.AUX_LOG_FORMAT
    /\ load_log' = outcome.log
    /\ load_result' = Some([raised |-> outcome.raised,
                            found |-> outcome.found,
                            supported_extensions |-> supported_extensions,
                            before |-> ConfigFields])

\* config.load_exception_config(prefix, supported_extensions), between calls
\* of handle_exception; what was observed of the calls made under the
\* previous store is dropped
load_exception_config(supported_extensions) ==
    /\ Running /\ AllIdle
    /\ LoadEnds(LoadOutcome(ConfigFields, files, builtins_kind, supported_extensions),
                supported_extensions)
    /\ sinks' = EmptySinks
    /\ frame' = [t \in Threads |-> IdleFrame]
    /\ wcall' = [t \in Threads |-> NoCall]
    /\ UNCHANGED <<PANIC_MODE, CUSTOM_CONTEXT_LEVEL, handlers, next_handler_id,
                   wrapped, pc, exit_status, sysconf_names, files, builtins_kind,
                   _tracked_handler_ids>>

NextLoad ==
    \/ \E ext \in Extensions : \E content \in FileChoices[ext] : WriteFile(ext, content)
    \/ \E ext \in Extensions : RemoveFile(ext)
    \/ \E supported_extensions \in ExtensionLists :
           load_exception_config(supported_extensions)

\* DynelConfig() on CPython or on an interpreter whose __builtins__ is the
\* module, no configuration file written yet
InitLoad ==
    /\ InitProgram
    /\ ~PANIC_MODE /\ CUSTOM_CONTEXT_LEVEL = "MINIMAL"
    /\ sysconf_names = LinuxSysconfNames
    /\ files = NoFiles
    /\ builtins_kind \in BuiltinsKinds

SpecLoad == InitLoad /\ [][NextLoad]_vars

----------------------------------------------------------------------------
(* Observations *)

\* a call of handle_exception by thread t was made (running or over)
Called(t) == frame[t].caller # ""

\* the call is over: it returned or ended the process
CallOver(t) == Called(t) /\ pc[t] \in {"idle", "exited"}

PastCompose(t) == Called(t) /\ pc[t] \notin {"gather", "compose"}
PastPrimary(t) == PastCompose(t) /\ pc[t] # "primary"

\* the try block of the auxiliary sink is running
InAux(t) == pc[t] \in {"aux_emit", "aux_info", "aux_except", "aux_finally"}
PastAux(t) == PastPrimary(t) /\ pc[t] # "aux_open" /\ ~InAux(t)

\* the records destination d received from thread t's call, by origin
RecordsOf(d, t, origins) ==
    SelectSeq(sinks[d], LAMBDA r : r.thread = t /\ r.origin \in origins)

HandleExceptionOrigins == {"primary", "mirrored", "info", "failed", "critical"}

\* the rule entry of the name looked up, and whether the error matches it
HasEntry(t) == frame[t].func_name \in DOMAIN EXCEPTION_CONFIG
EntryOf(t) == EXCEPTION_CONFIG[frame[t].func_name]
TypeMatches(t) ==
    /\ HasEntry(t)
    /\ \E i \in 1..Len(EntryOf(t).exceptions) :
           IsInstance(frame[t].error, EntryOf(t).exceptions[i])

----------------------------------------------------------------------------
(* Claims *)

C2_LookupKeyIsMemberName ==
    \A t \in Threads :
        (PastPrimary(t) /\ frame[t].via # None
                        /\ frame[t].via[1] \in DOMAIN EXCEPTION_CONFIG) =>
            /\ frame[t].func_name = frame[t].via[1]
            /\ frame[t].function_config = Some(EXCEPTION_CONFIG[frame[t].via[1]])
            /\ \A i \in 1..Len(RecordsOf(PrimarySink, t, {"primary"})) :
                   RecordsOf(PrimarySink, t, {"primary"})[i].message =
                       ComposeMessage(frame[t].via[1], frame[t].final_custom_message)

C4_MessageFormat ==
    \A t \in Threads :
        PastPrimary(t) =>
            LET prim == RecordsOf(PrimarySink, t, {"primary"})
                base == "Exception caught in " \o frame[t].func_name
                resolved == TypeMatches(t) /\ EntryOf(t).custom_message # ""
            IN /\ Len(prim) = 1
               /\ prim[1].message =
                      IF resolved
                      THEN base \o " - Custom Message: " \o EntryOf(t).custom_message
                      ELSE base

C4_Witness ==
    \E t \in Threads :
        /\ CallOver(t) /\ TypeMatches(t) /\ EntryOf(t).custom_message # ""
        /\ Len(RecordsOf(PrimarySink, t, {"primary"})) = 1

\* C5: with an entry whose listed types the error is no instance of, the
\* merged behavior actions are empty (no metadata merged, no auxiliary file
\* written) even when behaviors.default is defined, and no custom message and
\* no tags apply
C5_UnmatchedAppliesNothing ==
    \A t \in Threads :
        (PastCompose(t) /\ HasEntry(t) /\ ~TypeMatches(t)) =>
            /\ DOMAIN frame[t].applied_behaviors = {}
            /\ frame[t].final_custom_message = None
            /\ frame[t].final_tags = None
            /\ DOMAIN frame[t].custom_context_dict \subseteq
                   {"timestamp", "local_vars", "free_memory", "cpu_count",
                    "system_info_error", "env_details", "env_details_error"}
            /\ \A d \in AuxSinks : RecordsOf(d, t, HandleExceptionOrigins) = << >>

C7_MirrorLeavesPrimaryAlone ==
    \A t \in Threads :
        (PastAux(t) /\ "log_to_specific_file" \in DOMAIN frame[t].applied_behaviors
                    /\ frame[t].aux_fault = None) =>
            /\ Len(RecordsOf(frame[t].applied_behaviors.log_to_specific_file,
                             t, {"mirrored"})) = 1
            /\ RecordsOf(PrimarySink, t, {"mirrored", "info", "failed"}) = << >>

\* C7 amended: with log_to_specific_file among the applied behaviors and the
\* auxiliary handler attached and written without failure, the named auxiliary
\* destination receives exactly one record of the call, the mirrored one with
\* the context of the primary record; the mirrored record is logged through
\* the shared logger, so the primary destination receives it too, and, its
\* handler admitting INFO, the confirmation logged after it: records it would
\* not receive without the behavior
C7_MirrorReachesEveryHandler ==
    \A t \in Threads :
        (PastAux(t) /\ "log_to_specific_file" \in DOMAIN frame[t].applied_behaviors
                    /\ frame[t].aux_fault = None) =>
            LET target == frame[t].applied_behaviors.log_to_specific_file
                aux == RecordsOf(target, t, HandleExceptionOrigins)
                prim == RecordsOf(PrimarySink, t, {"primary"})
                extra == RecordsOf(PrimarySink, t, {"mirrored", "info", "failed"})
                admit_info == {h \in frame[t].handlers_at_entry :
                                  h.sink = PrimarySink /\ h.level <= INFO}
            IN /\ Len(aux) = 1
               /\ aux[1].origin = "mirrored"
               /\ aux[1].message = "[Mirrored to " \o target \o "] " \o prim[1].message
               /\ aux[1].extra = prim[1].extra
               /\ Len(extra) = 1 + Cardinality(admit_info)
               /\ extra[1] = aux[1]
               /\ \A i \in 2..Len(extra) : extra[i].origin = "info"

C7_Witness ==
    \E t \in Threads :
        /\ CallOver(t) /\ frame[t].aux_fault = None
        /\ "log_to_specific_file" \in DOMAIN frame[t].applied_behaviors
        /\ Len(RecordsOf(frame[t].applied_behaviors.log_to_specific_file,
                         t, {"mirrored"})) = 1
        /\ Len(RecordsOf(PrimarySink, t, {"mirrored"})) = 1

\* C8: the auxiliary handler is attached only while the try block of the
\* mirrored emission runs and is removed on every way out of it, also when
\* attaching or emitting raised: outside that block the attached handlers are
\* those attached when the call began, and between calls no handler on an
\* auxiliary destination is left
C8_NoHandlerLeak ==
    /\ \A t \in Threads :
           (Called(t) /\ ~InAux(t)) => handlers = frame[t].handlers_at_entry
    /\ \A t \in Threads :
           (pc[t] \in {"aux_emit", "aux_info"}) =>
               /\ frame[t].handler_id # None
               /\ handlers = frame[t].handlers_at_entry
                      \cup {[id |-> frame[t].handler_id[1],
                             sink |-> frame[t].target_file[1], level |-> ERROR]}
    /\ AllIdle => \A h \in handlers : h.sink \notin AuxSinks

C8_Witness ==
    \E t \in Threads :
        /\ CallOver(t) /\ frame[t].aux_fault = Some("emit")
        /\ frame[t].handler_id # None
        /\ handlers = frame[t].handlers_at_entry

C10_AuxFailureContained ==
    \A t \in Threads :
        frame[t].aux_fault # None =>
            LET recs == RecordsOf(PrimarySink, t, HandleExceptionOrigins)
            IN /\ frame[t].raised \in {None, Some("SystemExit")}
               /\ Len(recs) >= 1 /\ recs[1].origin = "primary"
               /\ pc[t] # "aux_except" =>
                      /\ Len(RecordsOf(PrimarySink, t, {"failed"})) = 1
                      /\ recs[2].origin = "failed"
               /\ RecordsOf(PrimarySink, t, {"mirrored", "info"}) = << >>
               /\ PANIC_MODE => pc[t] \notin {"return", "idle"}
               /\ pc[t] = "exited" => exit_status = Some(1)
               /\ (pc[t] = "idle" /\ frame[t].via # None) =>
                      wcall[t].result = Some([kind |-> "raised", value |-> frame[t].error])

C10_Witness ==
    \E t \in Threads :
        /\ frame[t].aux_fault # None /\ pc[t] = "exited"
        /\ exit_status = Some(1)
        /\ Len(RecordsOf(PrimarySink, t, {"failed"})) = 1

\* C11: with panic mode off, whatever fault occurs inside handle_exception
\* while it gathers the context or writes to the auxiliary sink, the wrapped
\* callable raises to its caller the exception its body raised, never an
\* exception of the routing
C11_RoutingNeverMasksOriginal ==
    \A t \in Threads :
        (pc[t] = "idle" /\ wcall[t].member # None /\ ~PANIC_MODE
                        /\ wcall[t].body[1].kind = "raises") =>
            /\ wcall[t].result =
                   Some([kind |-> "raised", value |-> wcall[t].body[1].value])
            /\ frame[t].raised = None

C13_ProbesNeverPropagate ==
    \A t \in Threads :
        (CUSTOM_CONTEXT_LEVEL = "DETAILED" /\ Called(t) /\ pc[t] # "gather") =>
            LET ctx == DOMAIN frame[t].custom_context_dict
            IN /\ frame[t].raised # Some(UnrecognizedName)
               /\ "free_memory" \in ctx \/ "system_info_error" \in ctx
               /\ "cpu_count" \in ctx \/ "system_info_error" \in ctx
               /\ "env_details" \in ctx \/ "env_details_error" \in ctx
               /\ CallOver(t) => Len(RecordsOf(PrimarySink, t, {"primary"})) = 1

----------------------------------------------------------------------------
(* configure_logging *)

\* the file names configure_logging is called with: the defaults, and others
LogFilePairs ==
    {[log_file |-> "dynel.log", json_file |-> "dynel.json"],
     [log_file |-> "app.log", json_file |-> "app.json"]}

\* level="DEBUG" if config.DEBUG_MODE else "INFO"
LoggingLevel(debug_mode) == IF Truthy(debug_mode) THEN DEBUG ELSE INFO

Range(ids) == {ids[i] : i \in 1..Len(ids)}

\* a loop that removes nothing
RemoveTrackedNone(hs, ids) == hs

\* for handler_id in _tracked_handler_ids: logger.remove(handler_id), the
\* ValueError of an id that is not attached being passed over
RemoveTracked(hs, ids) == {h \in hs : h.id \notin Range(ids)}

\* configure_logging(config, log_file, json_file): the tracked handlers are
\* removed, the list cleared, the text sink and the JSON sink added and tracked
configure_logging(log_file, json_file) ==
    /\ Running
    /\ next_handler_id + 2 <= MaxLoggingHandlerId
    /\ handlers' = RemoveTracked(handlers, _tracked_handler_ids) \cup
           {[id |-> next_handler_id, sink |-> log_file,
             level |-> LoggingLevel(DEBUG_MODE)],
            [id |-> next_handler_id + 1, sink |-> json_file,
             level |-> LoggingLevel(DEBUG_MODE)]}
    /\ _tracked_handler_ids' = <<next_handler_id, next_handler_id + 1>>
    /\ next_handler_id' = next_handler_id + 2
    /\ UNCHANGED <<EXCEPTION_CONFIG, PANIC_MODE, CUSTOM_CONTEXT_LEVEL, sinks, wrapped,
                   pc, frame, wcall, exit_status, sysconf_names, DEBUG_MODE,
                   LOG_FORMAT, AUX_LOG_FORMAT, files, builtins_kind, load_result,
                   load_log>>

\* the logger is configured, once or again, before, between and while
\* handle_exception is run on a rule with an auxiliary file
NextLogging ==
    \/ \E p \in LogFilePairs : configure_logging(p.log_file, p.json_file)
    \/ AssignExceptionConfig([F |-> EntryFull])
    \/ DirectCall(MainThread, "F", "ValueError")
    \/ he_step(MainThread)

SpecLogging == Init /\ [][NextLogging]_vars

----------------------------------------------------------------------------
(* Two threads *)

\* two threads route exceptions of a function whose rule names an auxiliary
\* file for each of them; their handle_exception calls interleave step by
\* step. Each thread makes one call under a store
NextThreads ==
    \/ \E store \in {EmptyDict, [F |-> EntryFull]} : AssignExceptionConfig(store)
    \/ \E t \in Threads : \E e \in {"ValueError", "KeyError"} :
           ~Called(t) /\ DirectCall(t, "F", e)
    \/ \E t \in Threads : he_step(t)

InitThreads == Init /\ CUSTOM_CONTEXT_LEVEL = "MINIMAL"

SpecThreads == InitThreads /\ [][NextThreads]_vars

----------------------------------------------------------------------------
(* Observations of a load *)

\* the last load_exception_config found a file and decoded a mapping from it
LoadedMapping ==
    /\ load_result # None
    /\ load_result[1].found # None
    /\ load_result[1].found[1] \in {"json", "yaml", "yml", "toml"}
    /\ files[load_result[1].found[1]][1].decodes
    /\ IsDict(files[load_result[1].found[1]][1].root)

\* the mapping it decoded, and its function keys whose value is a mapping
LoadedRoot == files[load_result[1].found[1]][1].root
LoadedEntries == {k \in FunctionKeys(LoadedRoot) : IsDict(LoadedRoot.val[k])}

LoadReturned == LoadedMapping /\ load_result[1].raised = None

\* the exception class a written name denotes, if it denotes one: a built-in
\* exception or an exception class of an importable module
NamedClass ==
    [n \in DOMAIN NameParts |->
        CASE n \in {"ValueError", "TypeError", "KeyError"} -> Some(n)
          [] n = "builtins.KeyError" -> Some("KeyError")
          [] n = "json.JSONDecodeError" -> Some("JSONDecodeError")
          [] OTHER -> None]

\* a written item of an 'exceptions' list names an exception class
ValidName(item) == IsStr(item) /\ NamedClass[item.val] # None

\* the written list of exception names of function key k
WrittenNames(k) == DictGet(LoadedRoot.val[k].val, "exceptions", PyList(<< >>))

\* the classes the valid items of a written list name, in the written order
RECURSIVE ValidClasses(_)
ValidClasses(items) ==
    IF items = << >> THEN << >>
    ELSE IF ValidName(Head(items))
         THEN <<NamedClass[Head(items).val][1]>> \o ValidClasses(Tail(items))
         ELSE ValidClasses(Tail(items))

\* a warning of the last load that names every one of the given values
Warned(names) ==
    \E rec \in load_log : rec.level = "WARNING" /\ names \subseteq rec.names

----------------------------------------------------------------------------
(* Claims about the loader *)

\* C14: load_exception_config raises FileNotFoundError exactly when no file
\* '<prefix>.<ext>' exists for any supported extension, raises ValueError when
\* the file found cannot be decoded or its root is not a mapping, and returns
\* normally in every other case
C14_LoadFailsOnlyAsDocumented ==
    load_result # None =>
        LET r == load_result[1]
            exts == r.supported_extensions
            exists == \E i \in 1..Len(exts) : files[exts[i]] # None
        IN /\ (r.raised = Some("FileNotFoundError")) <=> ~exists
           /\ exists =>
                  /\ r.found # None
                  /\ r.raised = IF LoadedMapping THEN None ELSE Some("ValueError")

\* C15: a name of an 'exceptions' list that resolves to no exception class
\* never aborts the load: the load returns, the name is left out of its
\* function's exceptions, a warning names it and the function key, every
\* valid name of the list is loaded and every function key has its entry
C15_UnresolvableNameSkipped ==
    (/\ LoadedMapping
     /\ \A k \in LoadedEntries : Iterable(WrittenNames(k))
     /\ \E k \in LoadedEntries : \E i \in 1..Len(WrittenNames(k).val) :
            ~ValidName(WrittenNames(k).val[i])) =>
        /\ load_result[1].raised = None
        /\ \A k \in LoadedEntries :
               /\ k \in DOMAIN EXCEPTION_CONFIG
               /\ EXCEPTION_CONFIG[k].exceptions = ValidClasses(WrittenNames(k).val)
               /\ \A i \in 1..Len(WrittenNames(k).val) :
                      LET item == WrittenNames(k).val[i]
                      IN ~ValidName(item) => Warned({k, StrOf(item)})

\* C16: after a load that returned, every function key of the document has
\* the custom_message and the tags that were written, and as exceptions
\* exactly the classes its valid written names denote (built-in names and
\* module.ClassName names), in the written order
C16_RoundTrip ==
    LoadReturned =>
        \A k \in LoadedEntries :
            LET written == LoadedRoot.val[k].val
                tags == DictGet(written, "tags", PyList(<< >>)).val
            IN /\ k \in DOMAIN EXCEPTION_CONFIG
               /\ EXCEPTION_CONFIG[k].custom_message =
                      DictGet(written, "custom_message", PyStr("")).val
               /\ EXCEPTION_CONFIG[k].tags = [i \in 1..Len(tags) |-> tags[i].val]
               /\ EXCEPTION_CONFIG[k].exceptions = ValidClasses(WrittenNames(k).val)

\* the written behaviors of function key k
WrittenBehaviors(k) == DictGet(LoadedRoot.val[k].val, "behaviors", PyDict(EmptyDict))

\* the stored actions of behavior key bk of function key k, none if not stored
StoredActions(k, bk) ==
    DictGet(EXCEPTION_CONFIG[k].behaviors, bk, EmptyDict)

\* every entry of the loaded mapping has lists as 'exceptions' and 'tags'
ListsAreLists ==
    \A k \in LoadedEntries :
        /\ Iterable(WrittenNames(k))
        /\ Iterable(DictGet(LoadedRoot.val[k].val, "tags", PyList(<< >>)))

\* C17 as stated: for a behavior key whose definition is a mapping only
\* add_metadata with a mapping as value and log_to_specific_file with a
\* non-empty string as value are kept, as written; every other action key and
\* every malformed value is dropped with a warning; a behavior key whose
\* definition is no mapping is dropped with a warning; the load does not fail
C17_BehaviorsKeptAsWritten ==
    (LoadedMapping /\ ListsAreLists) =>
        /\ load_result[1].raised = None
        /\ \A k \in LoadedEntries :
               IF ~IsDict(WrittenBehaviors(k))
               THEN EXCEPTION_CONFIG[k].behaviors = EmptyDict /\ Warned({k})
               ELSE \A bk \in DOMAIN WrittenBehaviors(k).val :
                        LET def == WrittenBehaviors(k).val[bk]
                            kept == StoredActions(k, bk)
                        IN IF ~IsDict(def)
                           THEN bk \notin DOMAIN EXCEPTION_CONFIG[k].behaviors
                                    /\ Warned({k, bk})
                           ELSE /\ DOMAIN kept \subseteq DOMAIN def.val
                                /\ \A a \in DOMAIN def.val :
                                       IF a = "add_metadata" /\ IsDict(def.val[a])
                                       THEN a \in DOMAIN kept
                                                /\ kept[a] = PlainDict(def.val[a])
                                       ELSE IF a = "log_to_specific_file"
                                                   /\ IsStr(def.val[a])
                                                   /\ def.val[a].val # ""
                                       THEN a \in DOMAIN kept
                                                /\ kept[a] = def.val[a].val
                                       ELSE a \notin DOMAIN kept
                                                /\ Warned({k, bk, a})

\* C17 amended: for a behavior key whose definition is a mapping only
\* add_metadata with a mapping as value and log_to_specific_file with a string
\* that is not blank are kept, the file name stripped of surrounding
\* whitespace; a malformed value of one of the two is dropped with a warning,
\* any other action key is dropped without a warning; a behavior key whose
\* definition is no mapping is dropped with a warning; the load does not fail
C17_BehaviorsValidated ==
    (LoadedMapping /\ ListsAreLists) =>
        /\ load_result[1].raised = None
        /\ \A k \in LoadedEntries :
               IF ~IsDict(WrittenBehaviors(k))
               THEN EXCEPTION_CONFIG[k].behaviors = EmptyDict /\ Warned({k})
               ELSE \A bk \in DOMAIN WrittenBehaviors(k).val :
                        LET def == WrittenBehaviors(k).val[bk]
                            kept == StoredActions(k, bk)
                        IN IF ~IsDict(def)
                           THEN bk \notin DOMAIN EXCEPTION_CONFIG[k].behaviors
                                    /\ Warned({k, bk})
                           ELSE /\ DOMAIN kept \subseteq DOMAIN def.val
                                /\ \A a \in DOMAIN def.val :
                                       IF a = "add_metadata" /\ IsDict(def.val[a])
                                       THEN a \in DOMAIN kept
                                                /\ kept[a] = PlainDict(def.val[a])
                                       ELSE IF a = "log_to_specific_file"
                                                   /\ IsStr(def.val[a])
                                                   /\ Strip(def.val[a].val) # ""
                                       THEN a \in DOMAIN kept
                                                /\ kept[a] = Strip(def.val[a].val)
                                       ELSE IF a \in {"add_metadata", "log_to_specific_file"}
                                       THEN a \notin DOMAIN kept /\ Warned({k, bk, a})
                                       ELSE a \notin DOMAIN kept /\ ~Warned({k, bk, a})

C17_Witness ==
    /\ LoadReturned /\ LoadedRoot = DocBehaviors
    /\ StoredActions("F", "ValueError") =
           [add_metadata |-> [error_code |-> "VE001"],
            log_to_specific_file |-> "value.log"]
    /\ StoredActions("F", "KeyError") = [add_metadata |-> [error_code |-> "KE001"]]
    /\ Warned({"F", "KeyError", "log_to_specific_file"})
    /\ Warned({"F", "default"})

----------------------------------------------------------------------------
(* Claims about wrapping *)

\* C18: after module_exception_handler(config, module) an exception raised by
\* a module-level function, an instance method, a static method or a class
\* method of the module's class is passed to handle_exception and re-raised:
\* none of the four kinds of member is left unwrapped
C18_EveryKindWrapped ==
    \A t \in Threads :
        (pc[t] = "idle" /\ wcall[t].member # None /\ wcall[t].replaced # {}
                        /\ ~PANIC_MODE) =>
            /\ wcall[t].member[1] \in wcall[t].replaced
            /\ wcall[t].body[1].kind = "raises" =>
                   /\ wcall[t].he_calls = 1
                   /\ Called(t) /\ frame[t].error = wcall[t].body[1].value
                   /\ wcall[t].result =
                          Some([kind |-> "raised", value |-> wcall[t].body[1].value])

\* C19: wrapping preserves the binding kind of every method: after
\* module_exception_handler a static method is attached as a staticmethod and a
\* class method as a classmethod, so that, called on the class or on an
\* instance, a static method receives no implicit first argument, a class
\* method the class and an instance method the instance
C19_BindingKindPreserved ==
    /\ wrapped # {} =>
           \A m \in Methods : Attached(m, wrapped) = OriginalDescriptor(MemberKind[m])
    /\ \A t \in Threads :
           (wcall[t].member # None /\ wcall[t].replaced # {}) =>
               wcall[t].implicit = ExpectedArg(MemberKind[wcall[t].member[1]])

\* what add_metadata of the applied behaviors holds, nothing when it is absent
AppliedMetadata(t) ==
    DictGet(frame[t].applied_behaviors, "add_metadata", EmptyDict)

\* tags were resolved: the error matched a listed type of the function's entry
\* and the entry's tag list is not empty
TagsResolved(t) ==
    /\ Matched(frame[t].function_config, frame[t].error)
    /\ DictGet(frame[t].function_config[1], "tags", << >>) # << >>

\* the keys of the context gathered before the rule is consulted
GatheredKeys ==
    {"timestamp", "local_vars", "free_memory", "cpu_count", "system_info_error",
     "env_details", "env_details_error"}

\* C20: in the context of the emitted primary record every pair of the applied
\* add_metadata is present as written, also for the keys the context already
\* held (timestamp, tags); the merge is flat (no key besides the gathered ones,
\* tags and those of add_metadata); the keys add_metadata does not name keep
\* their values; and, add_metadata not naming tags itself, the key tags is
\* present exactly when tags were resolved, holding the entry's tags
C20_TagsAndMetadataMerged ==
    \A t \in Threads :
        PastPrimary(t) =>
            \A i \in 1..Len(sinks[PrimarySink]) :
                LET rec == sinks[PrimarySink][i]
                    meta == AppliedMetadata(t)
                IN (rec.origin = "primary" /\ rec.thread = t) =>
                       /\ \A k \in DOMAIN meta : /\ k \in DOMAIN rec.extra
                                                 /\ rec.extra[k] = meta[k]
                       /\ DOMAIN rec.extra \subseteq
                              GatheredKeys \cup {"tags"} \cup DOMAIN meta
                       /\ "timestamp" \notin DOMAIN meta =>
                              rec.extra.timestamp = "now(utc).isoformat()"
                       /\ "tags" \notin DOMAIN meta =>
                              /\ "tags" \in DOMAIN rec.extra <=> TagsResolved(t)
                              /\ TagsResolved(t) =>
                                     rec.extra.tags = frame[t].function_config[1].tags

\* tags were resolved and add_metadata names tags and timestamp: the emitted
\* context holds the values of add_metadata
C20_Witness ==
    \E t \in Threads :
        /\ PastPrimary(t) /\ TagsResolved(t)
        /\ {"tags", "timestamp"} \subseteq DOMAIN AppliedMetadata(t)
        /\ \E i \in 1..Len(sinks[PrimarySink]) :
               LET rec == sinks[PrimarySink][i]
               IN /\ rec.origin = "primary" /\ rec.thread = t
                  /\ rec.extra.tags = AppliedMetadata(t).tags
                  /\ rec.extra.tags # frame[t].function_config[1].tags
                  /\ rec.extra.timestamp = AppliedMetadata(t).timestamp

----------------------------------------------------------------------------
(* Claims about the store across loads and calls *)

\* C21: after every load_exception_config the store is the one in place
\* before the call when the load raised, and otherwise the store parsed from
\* the document just loaded: its keys are function keys of that document
\* whose value is a mapping, so no entry of the previous store survives
\* unless the document lists it, and it is what the parser gives for the
\* document alone
C21_StoreReplacedWhole ==
    load_result # None =>
        IF load_result[1].raised # None
        THEN EXCEPTION_CONFIG = load_result[1].before.EXCEPTION_CONFIG
        ELSE /\ LoadedMapping
             /\ DOMAIN EXCEPTION_CONFIG = LoadedEntries
             /\ EXCEPTION_CONFIG =
                    _parse_exception_config(builtins_kind, LoadedRoot).value

\* a load returned and an entry of the store in place before it is gone
C21_Witness ==
    /\ LoadReturned
    /\ \E k \in DOMAIN load_result[1].before.EXCEPTION_CONFIG :
           k \notin DOMAIN EXCEPTION_CONFIG

----------------------------------------------------------------------------
(* Claims about the match *)

\* C23: for an entry listing <<ValueError, TypeError>>, an instance of a
\* subclass of both is matched on ValueError, the first listed type
\* isinstance holds for, and what is resolved is fixed by the entry and the
\* instance's class alone (the entry's custom message and tags, the behavior
\* under the class name), hence the same on every repetition of the call
C23_FirstListedTypeWins ==
    \A t \in Threads :
        (/\ PastCompose(t)
         /\ frame[t].function_config # None
         /\ DOMAIN frame[t].function_config[1] # {}
         /\ DictGet(frame[t].function_config[1], "exceptions", << >>)
                = <<"ValueError", "TypeError">>
         /\ IsInstance(frame[t].error, "ValueError")
         /\ IsInstance(frame[t].error, "TypeError")) =>
            LET entry == frame[t].function_config[1]
            IN /\ frame[t].configured_exc_type = Some("ValueError")
               /\ frame[t].final_custom_message = Some(entry.custom_message)
               /\ frame[t].final_tags = Some(entry.tags)
               /\ frame[t].specific_behaviors =
                      Some(DictGet(entry.behaviors, frame[t].error, EmptyDict))

C23_Witness ==
    \E t \in Threads :
        /\ CallOver(t)
        /\ frame[t].error = "ValueTypeError"
        /\ frame[t].function_config = Some(EntryOrdered)
        /\ frame[t].configured_exc_type = Some("ValueError")

\* C26: the type-specific behavior is the one keyed by the class name of the
\* raised instance, not by the listed type it matched: an instance of a
\* proper subclass of a listed type matches the entry (its custom message
\* and tags are resolved) and gets the behavior under its own class name,
\* none if the entry has no such key, whatever behavior the listed type has
C26_BehaviorKeyedByInstanceClass ==
    \A t \in Threads :
        (PastCompose(t) /\ Matched(frame[t].function_config, frame[t].error)) =>
            LET entry == frame[t].function_config[1]
                behaviors == DictGet(entry, "behaviors", EmptyDict)
                own == DictGet(behaviors, frame[t].error, EmptyDict)
            IN /\ IsInstance(frame[t].error, frame[t].configured_exc_type[1])
               /\ frame[t].final_custom_message = Some(entry.custom_message)
               /\ frame[t].final_tags = Some(entry.tags)
               /\ frame[t].specific_behaviors = Some(own)
               /\ frame[t].applied_behaviors =
                      DictMerge(DictGet(behaviors, "default", EmptyDict), own)

\* an instance of UnicodeError matched the listed ValueError, which has a
\* behavior of its own, and no type-specific behavior was applied: the
\* context holds the error code of the default behavior
C26_Witness ==
    \E t \in Threads :
        /\ CallOver(t)
        /\ frame[t].error = "UnicodeError"
        /\ frame[t].configured_exc_type = Some("ValueError")
        /\ "ValueError" \in DOMAIN frame[t].function_config[1].behaviors
        /\ "UnicodeError" \notin DOMAIN frame[t].function_config[1].behaviors
        /\ frame[t].final_custom_message = Some("bad input")
        /\ frame[t].specific_behaviors = Some(EmptyDict)
        /\ \E i \in 1..Len(sinks[PrimarySink]) :
               /\ sinks[PrimarySink][i].origin = "primary"
               /\ sinks[PrimarySink][i].extra.error_code = "D000"

\* C24: when the class of the raised instance has a behavior of its own in
\* the matched entry, no action of the default behavior is applied: the
\* context holds no add_metadata key of the default that the class's own
\* add_metadata does not name, and if the class's behavior has no
\* log_to_specific_file nothing is written to the default's file (stated
\* for the calls in which no operation on an auxiliary file failed)
C24_DefaultNotAppliedWithSpecific ==
    \A t \in Threads :
        (/\ CallOver(t) /\ frame[t].aux_fault = None
         /\ Matched(frame[t].function_config, frame[t].error)
         /\ "behaviors" \in DOMAIN frame[t].function_config[1]
         /\ frame[t].error \in DOMAIN frame[t].function_config[1].behaviors) =>
            LET behaviors == frame[t].function_config[1].behaviors
                own == behaviors[frame[t].error]
                default == DictGet(behaviors, "default", EmptyDict)
                own_md == DictGet(own, "add_metadata", EmptyDict)
                default_md == DictGet(default, "add_metadata", EmptyDict)
            IN /\ \A k \in (DOMAIN default_md) \ DOMAIN own_md :
                      k \notin DOMAIN frame[t].custom_context_dict
               /\ ("log_to_specific_file" \notin DOMAIN own
                       /\ "log_to_specific_file" \in DOMAIN default) =>
                      sinks[default.log_to_specific_file] = << >>

\* C25: after a load that returned, a behavior key whose definition is a
\* mapping is present in the function's parsed behaviors, with no action when
\* every action of the definition is invalid, and a behavior key whose
\* definition is no mapping is absent from them
C25_EmptyBehaviorKeyKept ==
    LoadReturned =>
        \A k \in LoadedEntries :
            IsDict(WrittenBehaviors(k)) =>
                \A bk \in DOMAIN WrittenBehaviors(k).val :
                    LET def == WrittenBehaviors(k).val[bk]
                    IN IF IsDict(def)
                       THEN /\ bk \in DOMAIN EXCEPTION_CONFIG[k].behaviors
                            /\ ParseActions(k, bk, def).actions = EmptyDict =>
                                   EXCEPTION_CONFIG[k].behaviors[bk] = EmptyDict
                       ELSE bk \notin DOMAIN EXCEPTION_CONFIG[k].behaviors

----------------------------------------------------------------------------
(* Claims about the order of the steps *)

\* the place of each record of handle_exception in the order of its steps
StepRank ==
    [primary |-> 1, mirrored |-> 2, info |-> 3, failed |-> 3, critical |-> 4]

\* C27: within one handle_exception call the steps come in one order and none
\* is repeated: the records of the call reach the primary destination as
\* primary, mirrored, info or failed, critical, each at most once; the first
\* is the primary record and carries the message composed and the context
\* gathered; an auxiliary handler is attached only once the primary record is
\* out; the call's auxiliary handler is detached when the CRITICAL record is
\* out; and the exit is requested after the CRITICAL record, as the last step
C27_StepsInOrder ==
    \A t \in Threads :
        LET recs == RecordsOf(PrimarySink, t, HandleExceptionOrigins)
            emitted == {recs[i].origin : i \in 1..Len(recs)}
        IN /\ \A i, j \in 1..Len(recs) :
                  i < j => StepRank[recs[i].origin] < StepRank[recs[j].origin]
           /\ recs # << >> =>
                  /\ PastCompose(t)
                  /\ recs[1].origin = "primary"
                  /\ recs[1].message = frame[t].log_message
                  /\ recs[1].extra = frame[t].custom_context_dict
           /\ (Called(t) /\ (frame[t].handler_id # None \/ frame[t].target_file # None)) =>
                  "primary" \in emitted
           /\ "critical" \in emitted =>
                  /\ PastAux(t)
                  /\ frame[t].handler_id # None =>
                         \A h \in handlers : h.id # frame[t].handler_id[1]
           /\ pc[t] = "exited" =>
                  /\ exit_status # None
                  /\ recs # << >> /\ recs[Len(recs)].origin = "critical"

\* a call in panic mode ran every step: primary, mirrored and info records,
\* the CRITICAL record, then the exit
C27_Witness ==
    \E t \in Threads :
        LET recs == RecordsOf(PrimarySink, t, HandleExceptionOrigins)
        IN /\ pc[t] = "exited" /\ frame[t].handler_id # None
           /\ Len(recs) = 4
           /\ recs[1].origin = "primary" /\ recs[2].origin = "mirrored"
           /\ recs[3].origin = "info" /\ recs[4].origin = "critical"

----------------------------------------------------------------------------
(* Claims about configure_logging *)

\* the handlers attached to a file configure_logging is called with
LoggingHandlers(hs) ==
    {h \in hs : \E p \in LogFilePairs : h.sink \in {p.log_file, p.json_file}}

----------------------------------------------------------------------------
(* Claims about concurrent calls *)

\* both threads ran one handle_exception call each, the calls overlapped and
\* have returned, each wrote its auxiliary file without a failure
BothReturned ==
    \A t \in Threads :
        /\ Called(t) /\ pc[t] = "idle"
        /\ Len(RecordsOf(PrimarySink, t, {"primary"})) = 1
        /\ frame[t].target_file # None
        /\ frame[t].aux_fault = None

\* C30: when the handle_exception calls of two threads overlap, each with a
\* log_to_specific_file behavior, then once both have returned every
\* auxiliary destination holds exactly one mirrored record of each thread
\* routed to it and no record of a thread routed elsewhere, and no auxiliary
\* handler is attached
C30_ConcurrentCallsKeepFilesApart ==
    BothReturned =>
        /\ \A d \in AuxSinks : \A t \in Threads :
               IF frame[t].target_file = Some(d)
               THEN Len(RecordsOf(d, t, {"mirrored"})) = 1
               ELSE RecordsOf(d, t, HandleExceptionOrigins) = << >>
        /\ \A h \in handlers : h.sink \notin AuxSinks

====
